---- MODULE Spec2Model ----
(***************************************************************************)
(* A model of gym_workout.py: the CSV-backed store (ensure_data_file,      *)
(* load_data with its st.cache_data memo, save_data), the entry log        *)
(* (add_workout_entry, delete_rows_by_ids), the weekly aggregation         *)
(* (get_weekly_summary) and one top-to-bottom run of the Streamlit script. *)
(*                                                                         *)
(* Representation.  A CSV cell text and a DataFrame cell value are both a  *)
(* record [k, n, s]:                                                       *)
(*   texts   k = "lit"   the characters s (s = "" is the empty cell)       *)
(*           k = "int"   a decimal integer literal n                       *)
(*           k = "float" a decimal literal with a fraction, n half-units   *)
(*           k = "date"  YYYY-MM-DD, n = YYYYMMDD                          *)
(*           k = "uuid"  the text of the n-th uuid4                        *)
(*           k = "ts"    the ISO-8601 text of clock reading n              *)
(*   values  k = "nan" / "nat"  missing value / missing date               *)
(*           k = "i64"   integer n;  k = "f64"  float, n half-units        *)
(*           k = "dateobj"  datetime.date with proleptic ordinal n         *)
(*           k = "str"   the Python str s                                  *)
(*           k = "str_date", "str_uuid", "str_ts"  the Python str holding  *)
(*                       the text of that kind                             *)
(* Weights move in steps of 0.5 (the form's step), so a float is kept as   *)
(* an integer number of halves: 50.0 is 100, volume 8 * 50.0 is 800.       *)
(* A week label "2024-W05" is the integer 202405.                          *)
(***************************************************************************)
EXTENDS Integers, Sequences, FiniteSets, TLC

VARIABLES
    file,        \* data/workouts.csv: [exists, header, rows]
    cache,       \* the st.cache_data memo of load_data: [valid, df]
    disk_reads,  \* how often load_data's body ran since the last save_data (capped)
    next_uuid,   \* how many uuid4 values have been drawn
    last_call,   \* the store / entry-log call made last: [op, sets, ids]
    ret,         \* what that call returned
    pc,          \* position of the script run
    df,          \* the script's variable df
    show_df,     \* the script's variable show_df
    today,       \* date.today() of the script run
    views,       \* what the run has rendered
    wk           \* the get_weekly_summary call: inputs and result

vars == <<file, cache, disk_reads, next_uuid, last_call, ret, pc, df, show_df, today, views, wk>>

-----------------------------------------------------------------------------
(* Bounds of the model *)

MaxUuid == 3          \* uuid4 values drawn in one behaviour
MaxReads == 2         \* cap of the disk_reads counter
MaxWeeks == 4         \* largest weeks argument of get_weekly_summary
\* the reading of datetime.now() a call takes: later than that of every row
\* written before it
Clock == {next_uuid + 1}
YearRange == 2020..2026

(* Program constants *)

DEFAULT_WEEKS == 12
UNITS == <<"kg", "lb">>
Columns == <<"id", "timestamp", "date", "exercise", "set_num",
             "reps", "weight", "unit", "notes", "volume">>

-----------------------------------------------------------------------------
(* datetime.date arithmetic *)

IsLeap(y) == (y % 4 = 0 /\ y % 100 # 0) \/ y % 400 = 0

DaysBeforeYear(y) == (y - 1) * 365 + (y - 1) \div 4 - (y - 1) \div 100 + (y - 1) \div 400

\* days of a common year before each month
CumDays == <<0, 31, 59, 90, 120, 151, 181, 212, 243, 273, 304, 334>>

DaysBeforeMonth(y, m) == CumDays[m] + (IF m > 2 /\ IsLeap(y) THEN 1 ELSE 0)

\* date(y, m, d).toordinal()
toordinal(y, m, d) == DaysBeforeYear(y) + DaysBeforeMonth(y, m) + d

YearOf(o) == CHOOSE y \in YearRange : DaysBeforeYear(y) < o /\ o <= DaysBeforeYear(y + 1)

\* the month of day j (1-based) of year y
MonthIn(y, j) ==
    CHOOSE m \in 1..12 : DaysBeforeMonth(y, m) < j /\ (m = 12 \/ j <= DaysBeforeMonth(y, m + 1))

Digits(y, m, j) == y * 10000 + m * 100 + (j - DaysBeforeMonth(y, m))
DigitsInYear(y, j) == Digits(y, MonthIn(y, j), j)
DigitsAt(o, y) == DigitsInYear(y, o - DaysBeforeYear(y))

\* date.isoformat(): the digits of YYYY-MM-DD
isoformat(o) == DigitsAt(o, YearOf(o))

\* the date a YYYY-MM-DD text names
fromisoformat(n) == toordinal(n \div 10000, (n \div 100) % 100, n % 100)

\* 1 = Monday ... 7 = Sunday
isoweekday(o) == ((o - 1) % 7) + 1

Jan1(y) == isoweekday(DaysBeforeYear(y) + 1)

LongYear(y, jan1) == jan1 = 4 \/ (jan1 = 3 /\ IsLeap(y))

WeeksInYear(y) == IF LongYear(y, Jan1(y)) THEN 53 ELSE 52

\* the week count before the year boundaries are looked at
WeekRaw(o, y) == (o - DaysBeforeYear(y) - isoweekday(o) + 10) \div 7

\* strftime %V: the ISO 8601 week number
WeekAt(y, w) == IF w < 1 THEN WeeksInYear(y - 1) ELSE IF w > WeeksInYear(y) THEN 1 ELSE w

LabelAt(o, y) == y * 100 + WeekAt(y, WeekRaw(o, y))

\* strftime("%Y-W%V"): the calendar year and the ISO week number
strftime_Y_W_V(o) == LabelAt(o, YearOf(o))

\* d - timedelta(weeks=i)
minus_weeks(o, i) == o - 7 * i

-----------------------------------------------------------------------------
(* Cell texts and cell values *)

Lit(x) == [k |-> "lit", n |-> 0, s |-> x]
IntText(i) == [k |-> "int", n |-> i, s |-> ""]
FloatText(h) == [k |-> "float", n |-> h, s |-> ""]
DateText(n) == [k |-> "date", n |-> n, s |-> ""]
UuidText(i) == [k |-> "uuid", n |-> i, s |-> ""]
TsText(t) == [k |-> "ts", n |-> t, s |-> ""]

NaN == [k |-> "nan", n |-> 0, s |-> ""]
NaT == [k |-> "nat", n |-> 0, s |-> ""]
I64(i) == [k |-> "i64", n |-> i, s |-> ""]
F64(h) == [k |-> "f64", n |-> h, s |-> ""]
DateObj(o) == [k |-> "dateobj", n |-> o, s |-> ""]
Str(x) == [k |-> "str", n |-> 0, s |-> x]
StrDate(n) == [k |-> "str_date", n |-> n, s |-> ""]
StrUuid(i) == [k |-> "str_uuid", n |-> i, s |-> ""]
StrTs(t) == [k |-> "str_ts", n |-> t, s |-> ""]

\* the strings pandas.read_csv reads as a missing value (its default na_values)
NaValues == {"", "#N/A", "#N/A N/A", "#NA", "-1.#IND", "-1.#QNAN", "-NaN", "-nan",
             "1.#IND", "1.#QNAN", "<NA>", "N/A", "NA", "NULL", "NaN", "None",
             "n/a", "nan", "null"}

\* str.strip() on the strings the forms of this model type
strip(x) ==
    CASE x = " Squat " -> "Squat"
      [] x = " ok " -> "ok"
      [] x = "  " -> ""
      [] OTHER -> x

\* DataFrame.to_csv, one cell: a missing value is written as the empty cell
to_csv_cell(v) ==
    CASE v.k \in {"nan", "nat"} -> Lit("")
      [] v.k = "i64" -> IntText(v.n)
      [] v.k = "f64" -> FloatText(v.n)
      [] v.k = "dateobj" -> DateText(isoformat(v.n))
      [] v.k = "str" -> Lit(v.s)
      [] v.k = "str_date" -> DateText(v.n)
      [] v.k = "str_uuid" -> UuidText(v.n)
      [] v.k = "str_ts" -> TsText(v.n)

\* pandas.read_csv, one cell
read_csv_cell(t) ==
    CASE t.k = "lit" -> IF t.s \in NaValues THEN NaN ELSE Str(t.s)
      [] t.k = "int" -> I64(t.n)
      [] t.k = "float" -> F64(t.n)
      [] t.k = "date" -> StrDate(t.n)
      [] t.k = "uuid" -> StrUuid(t.n)
      [] t.k = "ts" -> StrTs(t.n)

to_csv_row(r) == [c \in DOMAIN r |-> to_csv_cell(r[c])]
read_csv_row(r) == [c \in DOMAIN r |-> read_csv_cell(r[c])]

to_csv_rows(rows) == [i \in 1..Len(rows) |-> to_csv_row(rows[i])]
read_csv_rows(rows) == [i \in 1..Len(rows) |-> read_csv_row(rows[i])]

\* pd.to_datetime(col).dt.date, one cell; "raise" when the text names no date
to_date(v) ==
    CASE v.k = "str_date" -> DateObj(fromisoformat(v.n))
      [] v.k = "dateobj" -> v
      [] v.k \in {"nan", "nat"} -> NaT
      [] v.k \in {"str", "str_uuid", "str_ts"} -> [k |-> "raise", n |-> 0, s |-> ""]

\* truncation toward zero of a number of halves
trunc_halves(h) == IF h >= 0 THEN h \div 2 ELSE -((-h) \div 2)

\* pd.to_numeric(col, errors="coerce").fillna(0).astype(int), one cell
to_int(v) ==
    CASE v.k = "i64" -> I64(v.n)
      [] v.k = "f64" -> I64(trunc_halves(v.n))
      [] v.k \in {"nan", "nat", "str", "str_date", "str_uuid", "str_ts"} -> I64(0)

\* pd.to_numeric(col, errors="coerce").fillna(0.0), one cell
to_float(v) ==
    CASE v.k = "i64" -> F64(2 * v.n)
      [] v.k = "f64" -> v
      [] v.k \in {"nan", "nat", "str", "str_date", "str_uuid", "str_ts"} -> F64(0)

-----------------------------------------------------------------------------
(* Store *)

NoFile == [exists |-> FALSE, header |-> <<>>, rows |-> <<>>]
NoFrame == [columns |-> <<>>, rows |-> <<>>]          \* pd.DataFrame()
NoCache == [valid |-> FALSE, df |-> NoFrame]

empty(frame) == frame.rows = <<>>

ensure_data_file(f) ==
    IF f.exists THEN f ELSE [exists |-> TRUE, header |-> Columns, rows |-> <<>>]

coerce_row(r) ==
    [r EXCEPT !.date = to_date(@), !.reps = to_int(@),
              !.weight = to_float(@), !.volume = to_float(@)]

coerce_rows(raw) == [i \in 1..Len(raw) |-> coerce_row(raw[i])]

\* the load fails when a conversion raised
loaded(header, out) ==
    IF \E i \in 1..Len(out) : out[i].date.k = "raise"
    THEN [raised |-> TRUE, df |-> NoFrame]
    ELSE [raised |-> FALSE, df |-> [columns |-> header, rows |-> out]]

\* the body of load_data, on the file ensure_data_file left
load_body(f) == loaded(f.header, coerce_rows(read_csv_rows(f.rows)))

\* st.cache_data keeps what the body returned, nothing when it raised
memoized(f2, c, r) ==
    [file |-> f2,
     cache |-> IF r.raised THEN c ELSE [valid |-> TRUE, df |-> r.df],
     df |-> r.df, raised |-> r.raised, read |-> TRUE]

miss_on(f2, c) == memoized(f2, c, load_body(f2))

Miss(f, c) == miss_on(ensure_data_file(f), c)

\* @st.cache_data load_data(): the memo is served when there is one
load_data(f, c) ==
    IF c.valid
    THEN [file |-> f, cache |-> c, df |-> c.df, raised |-> FALSE, read |-> FALSE]
    ELSE Miss(f, c)

\* a clear that leaves the memo in place
ClearKeepsMemo(c) == c

\* load_data.clear()
clear(c) == NoCache

save_data(frame, c) ==
    [file |-> [exists |-> TRUE, header |-> frame.columns, rows |-> to_csv_rows(frame.rows)],
     cache |-> clear(c)]

\* disk_reads after a call that ran load_data's body (read) and save_data (saved)
count_reads(n, read, saved) ==
    IF saved THEN 0 ELSE IF read /\ n < MaxReads THEN n + 1 ELSE n

-----------------------------------------------------------------------------
(* Entry log *)

\* reps and weight added, not multiplied
VolumeSum(s) == s.reps + s.weight

\* volume = s["reps"] * float(s["weight"])
volume_of(s) == s.reps * s.weight

\* one uuid4 drawn for the whole batch
Uuid4Once(base, i) == base + 1

\* the i-th uuid4 drawn by a call that starts after base draws
uuid4(base, i) == base + i

new_row(entry_date, exercise, s, unit, notes, ts, id) ==
    [id |-> StrUuid(id),
     timestamp |-> StrTs(ts),
     date |-> StrDate(isoformat(entry_date)),
     exercise |-> Str(strip(exercise)),
     set_num |-> I64(s.set_num),
     reps |-> I64(s.reps),
     weight |-> F64(s.weight),
     unit |-> Str(unit),
     notes |-> Str(strip(notes)),
     volume |-> F64(volume_of(s))]

new_rows(form, sets, ts, base) ==
    [i \in 1..Len(sets) |->
        new_row(form.date, form.exercise, sets[i], form.unit, form.notes, ts, uuid4(base, i))]

\* pd.concat([df, pd.DataFrame(rows)], ignore_index=True)
concat(frame, rows) == [columns |-> Columns, rows |-> frame.rows \o rows]

\* what a call that ran load_data (l) and perhaps save_data (w) leaves
left(l, w, saved) ==
    [file |-> IF saved THEN w.file ELSE l.file,
     cache |-> IF saved THEN w.cache ELSE l.cache,
     read |-> l.read, saved |-> saved, raised |-> l.raised]

add_after_load(l, rows) ==
    IF ~l.raised /\ rows # <<>>
    THEN left(l, save_data(concat(l.df, rows), l.cache), TRUE)
    ELSE left(l, l, FALSE)

\* add_workout_entry: the file and the memo it leaves
add_workout_entry(f, c, form, sets, ts, base) ==
    add_after_load(load_data(f, c), new_rows(form, sets, ts, base))

IsinInverted(row, ids) == ~(row.id.k = "str_uuid" /\ row.id.n \in ids)

\* df["id"].isin(ids), one row
isin(row, ids) == row.id.k = "str_uuid" /\ row.id.n \in ids

RECURSIVE drop_ids(_, _)
drop_ids(rows, ids) ==
    IF rows = <<>> THEN <<>>
    ELSE IF isin(Head(rows), ids) THEN drop_ids(Tail(rows), ids)
    ELSE <<Head(rows)>> \o drop_ids(Tail(rows), ids)

delete_after_load(l, ids) ==
    IF ~l.raised /\ ~empty(l.df)
    THEN left(l, save_data([l.df EXCEPT !.rows = drop_ids(@, ids)], l.cache), TRUE)
    ELSE left(l, l, FALSE)

\* delete_rows_by_ids: the file and the memo it leaves
delete_rows_by_ids(f, c, ids) == delete_after_load(load_data(f, c), ids)

-----------------------------------------------------------------------------
(* Aggregator: get_weekly_summary *)

\* df2["date"].dt.strftime("%Y-W%V"), one row: the label, or 0 for a missing date
year_week(row) == IF row.date.k = "dateobj" THEN strftime_Y_W_V(row.date.n) ELSE 0

\* the rows left by "if exercise_filter and exercise_filter != 'All'" (None is "")
filtered(rows, exercise_filter) ==
    IF exercise_filter # "" /\ exercise_filter # "All"
    THEN SelectSeq(rows, LAMBDA r : r.exercise = Str(exercise_filter))
    ELSE rows

RECURSIVE volume_sum(_, _)
\* groupby("year_week")["volume"].sum() at one label; 0.0 when no row carries it
volume_sum(rows, label) ==
    IF rows = <<>> THEN 0
    ELSE (IF year_week(Head(rows)) = label THEN Head(rows).volume.n ELSE 0)
         + volume_sum(Tail(rows), label)

\* [(today - timedelta(weeks=i)).strftime("%Y-W%V") for i in range(weeks-1, -1, -1)]
wk_list(tday, weeks) == [j \in 1..weeks |-> strftime_Y_W_V(minus_weeks(tday, weeks - j))]

\* df_weeks.merge(grouped, on="year_week", how="left").fillna(0)
merged(df2, labels) ==
    [columns |-> <<"year_week", "volume">>,
     rows |-> [j \in 1..Len(labels) |->
                 [year_week |-> labels[j], volume |-> F64(volume_sum(df2, labels[j]))]]]

get_weekly_summary(frame, weeks, exercise_filter, tday) ==
    IF empty(frame) THEN NoFrame
    ELSE merged(filtered(frame.rows, exercise_filter), wk_list(tday, weeks))

-----------------------------------------------------------------------------
(* Aggregator: today's summary and the full history *)

\* the exercise names of this model, in Python's str order
Names == <<"", "All", "Bench", "Deadlift", "NA", "Squat">>
str_rank(x) == CHOOSE i \in 1..Len(Names) : Names[i] = x

\* the names in rows, ascending, without missing values: sorted(col.dropna().unique())
sorted_names(rows) ==
    SelectSeq(Names, LAMBDA x : \E i \in 1..Len(rows) : rows[i].exercise = Str(x))

RECURSIVE total(_, _)
total(rows, col) == IF rows = <<>> THEN 0 ELSE Head(rows)[col].n + total(Tail(rows), col)

\* the rows of one exercise name
group(rows, x) == SelectSeq(rows, LAMBDA r : r.exercise = Str(x))

agg_row(x, g) ==
    [exercise |-> x, sets |-> Len(g),
     total_reps |-> total(g, "reps"), total_volume |-> total(g, "volume")]

\* today_df.groupby("exercise").agg(...): one row per exercise name, names ascending
agg(today_df, keys) ==
    IF today_df = <<>> THEN [kind |-> "info", rows |-> <<>>]
    ELSE [kind |-> "table",
          rows |-> [i \in 1..Len(keys) |-> agg_row(keys[i], group(today_df, keys[i]))]]

today_rows(frame, tday) == SelectSeq(frame.rows, LAMBDA r : r.date = DateObj(tday))

summarize(today_df) == agg(today_df, sorted_names(today_df))

\* lines 145-156: df[df["date"] == today], grouped
today_summary(frame, tday) == summarize(today_rows(frame, tday))

\* ascending order of one sort key, missing values last
key_less(a, b) ==
    IF a.k \in {"nan", "nat"} THEN FALSE
    ELSE IF b.k \in {"nan", "nat"} THEN TRUE
    ELSE IF a.k = "str" THEN str_rank(a.s) < str_rank(b.s)
    ELSE a.n < b.n

DateAscending(a, b) == key_less(a, b)

\* descending order of the date key, missing values last
date_before(a, b) ==
    IF a.k \in {"nan", "nat"} THEN FALSE
    ELSE IF b.k \in {"nan", "nat"} THEN TRUE
    ELSE a.n > b.n

\* by=["date","exercise","set_num"], ascending=[False,True,True]
row_before(a, b) ==
    \/ date_before(a.date, b.date)
    \/ /\ a.date = b.date
       /\ \/ key_less(a.exercise, b.exercise)
          \/ a.exercise = b.exercise /\ key_less(a.set_num, b.set_num)

RECURSIVE insert_sorted(_, _)
\* x put behind every row that does not sort after it
insert_sorted(sorted, x) ==
    IF sorted = <<>> THEN <<x>>
    ELSE IF row_before(x, Head(sorted)) THEN <<x>> \o sorted
    ELSE <<Head(sorted)>> \o insert_sorted(Tail(sorted), x)

RECURSIVE sort_rows(_)
sort_rows(rows) ==
    IF rows = <<>> THEN <<>>
    ELSE insert_sorted(sort_rows(SubSeq(rows, 1, Len(rows) - 1)), rows[Len(rows)])

\* df.sort_values(by=[...], ascending=[...]): a stable sort
sort_values(frame) == [frame EXCEPT !.rows = sort_rows(@)]

\* ["All"] + sorted(df["exercise"].dropna().unique().tolist()), or ["All"]
exercise_list(frame) ==
    IF ~empty(frame) THEN <<"All">> \o sorted_names(frame.rows) ELSE <<"All">>

\* show_df.drop(columns=["id"])
drop_id(rows) == [i \in 1..Len(rows) |-> [c \in DOMAIN rows[i] \ {"id"} |-> rows[i][c]]]

-----------------------------------------------------------------------------
(* What the callers pass in *)

D_2024_01_03 == toordinal(2024, 1, 3)
D_2024_01_10 == toordinal(2024, 1, 10)
D_2024_12_30 == toordinal(2024, 12, 30)

\* log_form: date, exercise name, unit, notes as typed
Forms ==
    { [date |-> D_2024_01_03, exercise |-> " Squat ", unit |-> "kg", notes |-> ""],
      [date |-> D_2024_01_10, exercise |-> "Bench", unit |-> "lb", notes |-> " ok "],
      [date |-> D_2024_01_10, exercise |-> "NA", unit |-> "kg", notes |-> "ok"] }

Set1 == [set_num |-> 1, reps |-> 8, weight |-> 100]      \* 8 reps x 50.0
Set2 == [set_num |-> 2, reps |-> 5, weight |-> 105]      \* 5 reps x 52.5

SetLists == { <<>>, <<Set1>>, <<Set1, Set2>> }

\* ids picked for deletion, two at most; MaxUuid + 1 is an id no row ever has
IdSets == {ids \in SUBSET (1..MaxUuid + 1) : Cardinality(ids) <= 2}

\* a call of the store or the entry log, with the sets or the ids it was given
Call(op, sets, ids) == [op |-> op, sets |-> sets, ids |-> ids]
NoCall == Call("none", <<>>, {})
NoRet == [kind |-> "none", df |-> NoFrame]
Raised == [kind |-> "raised", df |-> NoFrame]
Frame(frame) == [kind |-> "frame", df |-> frame]

Idle == [at |-> "idle", trigger |-> "none"]
NotRendered == [kind |-> "none", rows |-> <<>>]
NoViews == [today |-> NotRendered, history |-> NotRendered, export |-> NotRendered,
            chart |-> NotRendered, weeks |-> 0, selected_exercise |-> ""]
NoWk == [df |-> NoFrame, weeks |-> 0, exercise_filter |-> "", today |-> 0,
         done |-> FALSE, out |-> NoFrame]

-----------------------------------------------------------------------------
(* The store and the entry log, called in any order *)

Init ==
    /\ file = NoFile
    /\ cache = NoCache
    /\ disk_reads = 0
    /\ next_uuid = 0
    /\ last_call = NoCall
    /\ ret = NoRet
    /\ pc = Idle
    /\ df = NoFrame
    /\ show_df = NoFrame
    /\ today = 0
    /\ views = NoViews
    /\ wk = NoWk

LoadData ==
    /\ last_call' = Call("load", <<>>, {})
    /\ UNCHANGED <<next_uuid, pc, df, show_df, today, views, wk>>
    /\ \E l \in {load_data(file, cache)} :
          /\ file' = l.file
          /\ cache' = l.cache
          /\ disk_reads' = count_reads(disk_reads, l.read, FALSE)
          /\ ret' = IF l.raised THEN Raised ELSE Frame(l.df)

AddWorkoutEntry(form, sets, ts) ==
    /\ next_uuid + Len(sets) <= MaxUuid
    /\ last_call' = Call("add", sets, {})
    /\ next_uuid' = next_uuid + Len(sets)
    /\ UNCHANGED <<pc, df, show_df, today, views, wk>>
    /\ \E r \in {add_workout_entry(file, cache, form, sets, ts, next_uuid)} :
          /\ file' = r.file
          /\ cache' = r.cache
          /\ disk_reads' = count_reads(disk_reads, r.read, r.saved)
          /\ ret' = IF r.raised THEN Raised ELSE NoRet

DeleteRowsByIds(ids) ==
    /\ last_call' = Call("delete", <<>>, ids)
    /\ UNCHANGED <<next_uuid, pc, df, show_df, today, views, wk>>
    /\ \E r \in {delete_rows_by_ids(file, cache, ids)} :
          /\ file' = r.file
          /\ cache' = r.cache
          /\ disk_reads' = count_reads(disk_reads, r.read, r.saved)
          /\ ret' = IF r.raised THEN Raised ELSE NoRet

Next ==
    \/ LoadData
    \/ \E form \in Forms, sets \in SetLists, ts \in Clock : AddWorkoutEntry(form, sets, ts)
    \/ \E ids \in IdSets : DeleteRowsByIds(ids)

Spec == Init /\ [][Next]_vars

-----------------------------------------------------------------------------
(* Claims about the store and the entry log (checked under Spec) *)

\* the stored table, as a load of the backing file returns it
Stored(f) == load_body(ensure_data_file(f)).df.rows

\* the calendar day a date cell holds
DayHeld(v) == IF v.k = "str_date" THEN fromisoformat(v.n) ELSE v.n

SameEntry(a, b) ==
    /\ a.id = b.id
    /\ a.timestamp = b.timestamp
    /\ a.date.k \in {"str_date", "dateobj"} /\ b.date.k \in {"str_date", "dateobj"}
    /\ DayHeld(a.date) = DayHeld(b.date)
    /\ a.exercise = b.exercise
    /\ a.set_num = b.set_num
    /\ a.reps = b.reps
    /\ a.weight = b.weight
    /\ a.unit = b.unit
    /\ a.notes = b.notes
    /\ a.volume = b.volume

UniqueIds(rows) == \A i, j \in 1..Len(rows) : i # j => rows[i].id # rows[j].id

AddedRows(before, after, sets) ==
    /\ Len(after) = Len(before) + Len(sets)
    /\ \A i \in 1..Len(sets) :
          /\ after[Len(before) + i].reps = I64(sets[i].reps)
          /\ after[Len(before) + i].weight = F64(sets[i].weight)
          /\ after[Len(before) + i].volume = F64(sets[i].reps * sets[i].weight)

\* C1: every add_workout_entry call with N sets leaves a stored table with exactly
\* N more rows; the i-th new row carries the reps and weight of the i-th set and
\* volume = reps * weight; with N = 0 save_data is not run (the file is only
\* created if it was missing, and the memo load_data filled stays valid).
C1_AddBatch ==
    [][last_call'.op = "add" =>
          /\ \A before \in {Stored(file)}, after \in {Stored(file')} :
                AddedRows(before, after, last_call'.sets)
          /\ last_call'.sets = <<>> => file' = ensure_data_file(file) /\ cache'.valid
      ]_vars

\* a batch of two sets was appended to a table that held one row
C1_Witness ==
    /\ last_call = Call("add", <<Set1, Set2>>, {})
    /\ Len(Stored(file)) = 3
    /\ Stored(file)[3].volume = F64(525)

KeptRows(before, after, ids) ==
    after = SelectSeq(before, LAMBDA r : r.id.n \notin ids)

\* C2: every delete_rows_by_ids call leaves exactly the rows whose id is not in
\* the given set, field values and relative order unchanged; ids that match no
\* row raise nothing and remove nothing; on an empty table nothing is saved.
C2_DeleteByIds ==
    [][last_call'.op = "delete" =>
          \A before \in {Stored(file)} :
             /\ KeptRows(before, Stored(file'), last_call'.ids)
             /\ ret' = NoRet
             /\ before = <<>> => file' = ensure_data_file(file) /\ cache'.valid
      ]_vars

\* a delete naming two ids, of which one matched, left two of three rows
C2_Witness ==
    /\ last_call.op = "delete" /\ Cardinality(last_call.ids) = 2
    /\ next_uuid = 3
    /\ Len(Stored(file)) = 2

C3_Coherent ==
    /\ disk_reads <= 1
    /\ cache.valid => file.exists /\ cache.df = load_body(file).df
    /\ last_call.op = "load" => ret = Frame(load_body(file).df)

\* C3: load_data's body runs at most once between two saves; a load that follows
\* a load returns the same data and reads nothing; every load returns what the
\* backing file holds, so the first load after a save returns the saved table and
\* a memo made before the save is never served.
C3_CacheCoherence ==
    /\ []C3_Coherent
    /\ [][(last_call.op = "load" /\ last_call'.op = "load") =>
            (ret' = ret /\ disk_reads' = disk_reads /\ file' = file)]_vars

\* a load after a save returned the saved rows, read from disk once
C3_Witness ==
    /\ last_call.op = "load"
    /\ disk_reads = 1
    /\ Len(ret.df.rows) = 2
    /\ next_uuid = 3

OneBatch(new) ==
    /\ UniqueIds(new)
    /\ \A i, j \in 1..Len(new) : new[i].timestamp = new[j].timestamp

\* the n rows at the end of the table
LastRows(rows, n) == SubSeq(rows, Len(rows) - n + 1, Len(rows))

\* C6: no two stored rows share an id, and the rows the add_workout_entry call
\* made last appended (the last rows of the table, one per set) have pairwise
\* distinct ids and one common timestamp.
C6_UniqueIds ==
    \A rows \in {Stored(file)} :
       /\ UniqueIds(rows)
       /\ last_call.op = "add" =>
             /\ Len(rows) >= Len(last_call.sets)
             /\ OneBatch(LastRows(rows, Len(last_call.sets)))

\* after the only row was deleted, a batch of two was added
C6_Witness ==
    /\ last_call = Call("add", <<Set1, Set2>>, {})
    /\ Len(Stored(file)) = 2
    /\ next_uuid = 3
    /\ Stored(file)[1].timestamp = Stored(file)[2].timestamp

SameEntries(mem, back) ==
    /\ Len(back) = Len(mem)
    /\ \A i \in 1..Len(mem) : SameEntry(mem[i], back[i])

\* C7: the table add_workout_entry hands to save_data, written to the file and
\* loaded again, gives the same Set-Entries field by field.
C7_RoundTrip ==
    [][\A form \in Forms, sets \in SetLists, ts \in Clock :
         (AddWorkoutEntry(form, sets, ts) /\ sets # <<>>) =>
            SameEntries(concat(load_data(file, cache).df,
                               new_rows(form, sets, ts, next_uuid)).rows,
                        Stored(file'))
      ]_vars

-----------------------------------------------------------------------------
(* load_data on a backing file written by something else *)

GoodRow == to_csv_row(new_row(D_2024_01_03, "Squat", Set1, "kg", "ok", 1, 1))

RepsTexts == {IntText(8), FloatText(17), Lit("abc"), Lit("")}
WeightTexts == {FloatText(100), IntText(50), Lit("heavy"), Lit("")}
VolumeTexts == {FloatText(800), IntText(400), Lit("n/a"), Lit("x")}
DateTexts == {DateText(20240103), Lit(""), Lit("notadate")}

ForeignRows ==
    { [GoodRow EXCEPT !.reps = r, !.weight = w, !.volume = v, !.date = d] :
        r \in RepsTexts, w \in WeightTexts, v \in VolumeTexts, d \in DateTexts }

ForeignFiles ==
    {NoFile, ensure_data_file(NoFile)}
    \cup { [exists |-> TRUE, header |-> Columns, rows |-> <<row>>] : row \in ForeignRows }
    \cup { [exists |-> TRUE, header |-> Columns, rows |-> <<GoodRow, row>>] :
             row \in { [GoodRow EXCEPT !.reps = r, !.date = d] : r \in RepsTexts, d \in DateTexts } }

InitLoad ==
    /\ file \in ForeignFiles
    /\ cache = NoCache
    /\ disk_reads = 0
    /\ next_uuid = 0
    /\ last_call = NoCall
    /\ ret = NoRet
    /\ pc = Idle
    /\ df = NoFrame
    /\ show_df = NoFrame
    /\ today = 0
    /\ views = NoViews
    /\ wk = NoWk

SpecLoad == InitLoad /\ [][LoadData]_vars

\* a cell text that is no number
NonNumeric(t) == t.k = "lit"

\* C8: a load never raises: it returns a table in which a non-numeric reps cell
\* reads 0 and a non-numeric weight or volume cell reads 0.0, and a missing
\* backing file is created and loads as a zero-row table with the 10 columns.
C8_LoadNeverRaises ==
    last_call.op = "load" =>
        /\ ret.kind = "frame"
        /\ file.exists
        /\ ret.df.columns = Columns
        /\ Len(ret.df.rows) = Len(file.rows)
        /\ \A i \in 1..Len(file.rows) :
              /\ NonNumeric(file.rows[i].reps) => ret.df.rows[i].reps = I64(0)
              /\ NonNumeric(file.rows[i].weight) => ret.df.rows[i].weight = F64(0)
              /\ NonNumeric(file.rows[i].volume) => ret.df.rows[i].volume = F64(0)

-----------------------------------------------------------------------------
(* get_weekly_summary on tables of its own *)

D_2024_12_25 == toordinal(2024, 12, 25)
D_2025_01_08 == toordinal(2025, 1, 8)

WkDates == {D_2024_01_03, D_2024_01_10, D_2024_12_25, D_2024_12_30}
WkTodays == {D_2024_01_10, D_2024_12_30, D_2025_01_08}
WkFilters == {"", "All", "Squat", "Deadlift"}

\* a row as load_data returns it
loaded_row(entry_date, exercise, s, id) ==
    coerce_row(read_csv_row(to_csv_row(new_row(entry_date, exercise, s, "kg", "ok", 1, id))))

WkRows(id) == { loaded_row(d, e, s, id) : d \in WkDates, e \in {"Squat", "Bench"}, s \in {Set1, Set2} }

WkTables == {<<>>} \cup { <<a>> : a \in WkRows(1) }
                   \cup { <<a, b>> : a \in WkRows(1), b \in WkRows(2) }

InitWeekly ==
    /\ file = NoFile
    /\ cache = NoCache
    /\ disk_reads = 0
    /\ next_uuid = 0
    /\ last_call = NoCall
    /\ ret = NoRet
    /\ pc = Idle
    /\ df = NoFrame
    /\ show_df = NoFrame
    /\ today = 0
    /\ views = NoViews
    /\ \E rows \in WkTables, w \in 1..MaxWeeks, f \in WkFilters, t \in WkTodays :
          wk = [df |-> [columns |-> Columns, rows |-> rows], weeks |-> w,
                exercise_filter |-> f, today |-> t, done |-> FALSE, out |-> NoFrame]

WeeklySummary ==
    /\ ~wk.done
    /\ wk' = [wk EXCEPT !.done = TRUE,
                        !.out = get_weekly_summary(wk.df, wk.weeks, wk.exercise_filter, wk.today)]
    /\ UNCHANGED <<file, cache, disk_reads, next_uuid, last_call, ret, pc, df, show_df, today, views>>

SpecWeekly == InitWeekly /\ [][WeeklySummary]_vars

\* the ISO 8601 week a day lies in: ISO year and ISO week number
IsoYearAt(y, w) == IF w < 1 THEN y - 1 ELSE IF w > WeeksInYear(y) THEN y + 1 ELSE y
IsoLabelAt(y, w) == IsoYearAt(y, w) * 100 + WeekAt(y, w)
IsoLabelIn(o, y) == IsoLabelAt(y, WeekRaw(o, y))
IsoYearWeek(o) == IsoLabelIn(o, YearOf(o))

\* the day that stands for the j-th of the weeks buckets ending at tday
BucketDay(tday, weeks, j) == tday - 7 * (weeks - j)

RECURSIVE VolumeInIsoWeek(_, _, _)
VolumeInIsoWeek(rows, exercise_filter, isoweek) ==
    IF rows = <<>> THEN 0
    ELSE LET r == Head(rows)
             counts == /\ exercise_filter \in {"", "All"} \/ r.exercise = Str(exercise_filter)
                       /\ r.date.k = "dateobj"
                       /\ IsoYearWeek(r.date.n) = isoweek
         IN  (IF counts THEN r.volume.n ELSE 0)
             + VolumeInIsoWeek(Tail(rows), exercise_filter, isoweek)

\* C4: get_weekly_summary with weeks = W returns exactly W buckets, oldest first,
\* the last being the current ISO week, for every table, the empty one included.
C4_ExactlyWBuckets ==
    wk.done =>
        /\ Len(wk.out.rows) = wk.weeks
        /\ \A j \in 1..Len(wk.out.rows) :
              wk.out.rows[j].year_week = IsoYearWeek(BucketDay(wk.today, wk.weeks, j))

\* C5: on a non-empty table each bucket carries the summed volume of exactly the
\* rows that pass the filter and are dated in the bucket's ISO week (ISO year and
\* ISO week number), 0.0 when there are none.
C5_BucketVolume ==
    (wk.done /\ ~empty(wk.df)) =>
        /\ Len(wk.out.rows) = wk.weeks
        /\ \A j \in 1..Len(wk.out.rows) :
              wk.out.rows[j].volume =
                  F64(VolumeInIsoWeek(wk.df.rows, wk.exercise_filter,
                                      IsoYearWeek(BucketDay(wk.today, wk.weeks, j))))

-----------------------------------------------------------------------------
(* One run of the script after another, each from line 114 to the end *)

RunTodays == {D_2024_01_10, D_2024_12_30}

\* what the user typed into log_form; the last has a blank exercise name
RunForms == Forms \cup {[date |-> D_2024_01_10, exercise |-> "  ", unit |-> "lb", notes |-> ""]}

\* the form asks for 1 to 12 sets
RunSetLists == SetLists \ {<<>>}

\* the chart asks for 4 to 52 weeks
RunWeeks == 4..MaxWeeks

\* the script's "call; df = load_data()": what the call left, then the reload
reloaded(r, l) ==
    [file |-> l.file, cache |-> l.cache, df |-> l.df,
     read1 |-> r.read, saved |-> r.saved, read2 |-> l.read]

then_load(r) == reloaded(r, load_data(r.file, r.cache))

\* line 114; trigger is the widget whose use started this run
RunStart ==
    /\ pc.at \in {"idle", "done"}
    /\ \E l \in {load_data(file, cache)} :
          /\ file' = l.file
          /\ cache' = l.cache
          /\ disk_reads' = count_reads(disk_reads, l.read, FALSE)
          /\ df' = l.df
    /\ \E t \in RunTodays : today' = t
    /\ \E trigger \in {"none", "submit", "delete"} : pc' = [at |-> "form", trigger |-> trigger]
    /\ show_df' = NoFrame
    /\ views' = NoViews
    /\ UNCHANGED <<next_uuid, last_call, ret, wk>>

\* lines 134-140: the submit handler
Submit(form, sets, ts) ==
    IF strip(form.exercise) = ""
    THEN UNCHANGED <<file, cache, disk_reads, next_uuid, df>>
    ELSE /\ next_uuid + Len(sets) <= MaxUuid
         /\ next_uuid' = next_uuid + Len(sets)
         /\ \E x \in {then_load(add_workout_entry(file, cache, form, sets, ts, next_uuid))} :
               /\ file' = x.file
               /\ cache' = x.cache
               /\ disk_reads' = count_reads(count_reads(disk_reads, x.read1, x.saved),
                                            x.read2, FALSE)
               /\ df' = x.df

\* lines 118-140: the form
RunForm ==
    /\ pc.at = "form"
    /\ pc' = [pc EXCEPT !.at = "today"]
    /\ UNCHANGED <<last_call, ret, show_df, today, views, wk>>
    /\ IF pc.trigger = "submit"
       THEN \E form \in RunForms, sets \in RunSetLists, ts \in Clock : Submit(form, sets, ts)
       ELSE UNCHANGED <<file, cache, disk_reads, next_uuid, df>>

\* lines 145-156
RunToday ==
    /\ pc.at = "today"
    /\ pc' = [pc EXCEPT !.at = "history"]
    /\ views' = [views EXCEPT !.today = today_summary(df, today)]
    /\ UNCHANGED <<file, cache, disk_reads, next_uuid, last_call, ret, df, show_df, today, wk>>

\* lines 171-175: the delete handler
DeleteSelected(selected) ==
    \E x \in {then_load(delete_rows_by_ids(file, cache, selected))} :
       /\ file' = x.file
       /\ cache' = x.cache
       /\ disk_reads' = count_reads(count_reads(disk_reads, x.read1, x.saved), x.read2, FALSE)
       /\ df' = x.df

\* the ids the option labels carry: s.split("id:")[-1]
option_ids(frame) == {frame.rows[i].id.n : i \in 1..Len(frame.rows)}

\* lines 161-181: the history table, the delete handler and the export
RunHistory ==
    /\ pc.at = "history"
    /\ pc' = [pc EXCEPT !.at = "chart"]
    /\ UNCHANGED <<next_uuid, last_call, ret, today, wk>>
    /\ IF empty(df)
       THEN /\ views' = [views EXCEPT !.history = [kind |-> "info", rows |-> <<>>]]
            /\ UNCHANGED <<file, cache, disk_reads, df, show_df>>
       ELSE /\ show_df' = sort_values(df)
            /\ IF pc.trigger = "delete"
               THEN \E selected \in SUBSET option_ids(df) : DeleteSelected(selected)
               ELSE UNCHANGED <<file, cache, disk_reads, df>>
            /\ views' = [views EXCEPT
                            !.history = [kind |-> "table", rows |-> drop_id(show_df'.rows)],
                            !.export = [kind |-> "csv", rows |-> to_csv_rows(df'.rows)]]

\* what lines 191-199 show
chart_of(summary_df) ==
    IF empty(summary_df) THEN [kind |-> "info", rows |-> <<>>]
    ELSE [kind |-> "chart", rows |-> summary_df.rows]

\* lines 186-199
RunChart ==
    /\ pc.at = "chart"
    /\ pc' = [pc EXCEPT !.at = "done"]
    /\ UNCHANGED <<file, cache, disk_reads, next_uuid, last_call, ret, df, show_df, today, wk>>
    /\ \E selected_exercise \in {exercise_list(df)[i] : i \in 1..Len(exercise_list(df))},
          weeks \in RunWeeks :
          views' = [views EXCEPT
                       !.chart = chart_of(get_weekly_summary(df, weeks, selected_exercise, today)),
                       !.weeks = weeks,
                       !.selected_exercise = selected_exercise]

NextRun == RunStart \/ RunForm \/ RunToday \/ RunHistory \/ RunChart

SpecRun == Init /\ [][NextRun]_vars

-----------------------------------------------------------------------------
(* The history step of a run, on tables of its own *)

MaxHistRows == 3

HistKinds == [date : {D_2024_01_03, D_2024_01_10}, exercise : {"Squat", "Bench", "NA"},
              set : {Set1, Set2}]

\* tables of n loaded rows, the i-th with id i
HistTables(n) ==
    { [i \in 1..n |-> loaded_row(f[i].date, f[i].exercise, f[i].set, i)] : f \in [1..n -> HistKinds] }

\* the script has loaded the table, rendered today's summary and stands at line 161
InitHistory ==
    /\ \E n \in 0..MaxHistRows : \E rows \in HistTables(n) :
          /\ df = [columns |-> Columns, rows |-> rows]
          /\ next_uuid = n
    /\ file = save_data(df, NoCache).file
    /\ cache = [valid |-> TRUE, df |-> df]
    /\ disk_reads = 1
    /\ last_call = NoCall
    /\ ret = NoRet
    /\ pc = [at |-> "history", trigger |-> "none"]
    /\ show_df = NoFrame
    /\ today = D_2024_01_10
    /\ views = [NoViews EXCEPT !.today = today_summary(df, today)]
    /\ wk = NoWk

SpecHistory == InitHistory /\ [][RunHistory]_vars

\* exercise names ascending, a missing name behind every name
NameLess(x, y) == x.k = "str" /\ (y.k = "nan" \/ str_rank(x.s) < str_rank(y.s))

\* a sorts strictly before b: date descending, exercise ascending, set_num ascending
SortsBefore(a, b) ==
    \/ a.date.n > b.date.n
    \/ /\ a.date.n = b.date.n
       /\ \/ NameLess(a.exercise, b.exercise)
          \/ a.exercise = b.exercise /\ a.set_num.n < b.set_num.n

Ordered(rows) == \A i, j \in 1..Len(rows) : i < j => ~SortsBefore(rows[j], rows[i])

EachRowOnce(shown, rows) ==
    /\ Len(shown) = Len(rows)
    /\ \A i \in 1..Len(rows) : \E j \in 1..Len(shown) : shown[j] = rows[i]

\* C9: the full history holds every row of the table exactly once, by date
\* descending, then exercise ascending (a missing name last), then set_num
\* ascending; of two rows with different dates the later-dated one comes first.
C9_FullHistory ==
    (pc.at = "chart" /\ ~empty(df)) =>
        /\ EachRowOnce(show_df.rows, df.rows)
        /\ Ordered(show_df.rows)
        /\ \A i, j \in 1..Len(show_df.rows) :
              show_df.rows[i].date.n > show_df.rows[j].date.n => i < j

\* a history in which date, exercise and set_num each moved a row
C9_Witness ==
    /\ pc.at = "chart"
    /\ Len(df.rows) = 3
    /\ df.rows[1].date.n < df.rows[3].date.n
    /\ show_df.rows # df.rows
    /\ show_df.rows[1].date = show_df.rows[2].date
    /\ show_df.rows[1].exercise = Str("Bench")
    /\ show_df.rows[2].exercise = Str("Squat")

\* the table the views of a finished run should all show
FinalTable == [columns |-> Columns, rows |-> Stored(file)]

HistoryOf(frame) ==
    IF empty(frame) THEN [kind |-> "info", rows |-> <<>>]
    ELSE [kind |-> "table", rows |-> drop_id(sort_values(frame).rows)]

\* C10: at the end of a run every view shows the table as it stands after the
\* submit or delete handled in the run; the history holds no deleted row.
C10_ViewsAgree ==
    pc.at = "done" =>
        /\ df = FinalTable
        /\ views.today = today_summary(FinalTable, today)
        /\ views.history = HistoryOf(FinalTable)
        /\ views.export.kind = "csv" => views.export.rows = to_csv_rows(FinalTable.rows)
        /\ views.chart = chart_of(get_weekly_summary(FinalTable, views.weeks,
                                                     views.selected_exercise, today))

====
